---- MODULE Spec2Model ----
(***************************************************************************)
(* Model of the curve_fit crate (src/src/lib.rs): Config and its declared  *)
(* field check, the Error variants, CurveFit::fit and Curve::eval.         *)
(*                                                                         *)
(* A caller draws a model function, two data arrays and a Config, calls    *)
(* fit on them, may call fit again on the same arguments, and may call     *)
(* eval on the Curve it got back.                                          *)
(*                                                                         *)
(* Representation of f64:                                                  *)
(*  - cfg.p0 is only ever inspected by is_normal, which reads the bit      *)
(*    fields of the value; p0 is a record of sign, biased exponent and     *)
(*    mantissa of a small binary format.                                   *)
(*  - data values, parameters and model-function values are records        *)
(*    [k, v]: k = "fin" with the exact value v >= 0, or k = "inf", or      *)
(*    k = "nan".  The arithmetic below follows the IEEE rules for the      *)
(*    non-negative values the model draws.                                 *)
(***************************************************************************)
EXTENDS Integers, Sequences, FiniteSets, TLC

\* ------------------------------------------------------------- the state

VARIABLES
    func, x_data, y_data, cfg,  \* the arguments of the caller's fit calls
    pc,                         \* "start", "fitted" (after the first fit call), "refitted"
    result,                     \* what the latest fit call returned
    prev,                       \* what the fit call before it returned
    curve,                      \* the Curve the caller holds, unwrapped from result
    evals                       \* <<x, value>> of the eval calls made on curve

vars == << func, x_data, y_data, cfg, pc, result, prev, curve, evals >>

\* ---------------------------------------------------------------- bounds

\* longest data array drawn freely from DataValues
MaxLen == 2
\* all-ones biased exponent of the p0 format (exponents are 0..ExpMax)
ExpMax == 3
\* largest mantissa of the p0 format (mantissas are 0..ManMax)
ManMax == 1

\* number of parameters of the model functions (const N of fit; the
\* functions of the tests take [f64; 2])
N == 2

\* ------------------------------------------------------------ f64 values

Fin(n) == [k |-> "fin", v |-> n]
NaN == [k |-> "nan", v |-> 0]
Inf == [k |-> "inf", v |-> 0]

is_finite(a) == a.k = "fin"

\* a + b
FAdd(a, b) ==
    IF a.k = "nan" \/ b.k = "nan" THEN NaN
    ELSE IF a.k = "inf" \/ b.k = "inf" THEN Inf
    ELSE Fin(a.v + b.v)

\* a * b
FMul(a, b) ==
    IF a.k = "nan" \/ b.k = "nan" THEN NaN
    ELSE IF a.k = "inf" \/ b.k = "inf"
         THEN IF a = Fin(0) \/ b = Fin(0) THEN NaN ELSE Inf
    ELSE Fin(a.v * b.v)

\* a / b (quotients of finite values are exact for the values drawn)
FDiv(a, b) ==
    IF a.k = "nan" \/ b.k = "nan" THEN NaN
    ELSE IF a.k = "inf" THEN (IF b.k = "inf" THEN NaN ELSE Inf)
    ELSE IF b.k = "inf" THEN Fin(0)
    ELSE IF b.v = 0 THEN (IF a.v = 0 THEN NaN ELSE Inf)
    ELSE Fin(a.v \div b.v)

\* ------------------------------------------------------- model functions

\* fn target_func(x, p) = p[0] * x + p[1]  (also the closure of it_works)
target_func(x, p) == FAdd(FMul(p[1], x), p[2])

\* a model function that is zero everywhere: |x, p| 0.0
zero_func(x, p) == Fin(0)

\* a model function with a pole at x = 0: |x, p| p[0] / x + p[1]
recip_func(x, p) == FAdd(FDiv(p[1], x), p[2])

\* the model functions a caller passes as self
Funcs == {"target_func", "zero_func", "recip_func"}

\* (self.func)(x, params): the call of a stored model function
Apply(f, x, p) ==
    CASE f = "target_func" -> target_func(x, p)
      [] f = "zero_func" -> zero_func(x, p)
      [] f = "recip_func" -> recip_func(x, p)

\* ---------------------------------------------------------------- Config

Methods == {"LM", "DogBox", "TRF"}

\* the bit patterns of p0
P0Values == [s : 0..1, e : 0..ExpMax, m : 0..ManMax]

\* is_normal that takes a subnormal p0 for a normal one
is_normal_subnormal_ok(p) == (p.e # 0 \/ p.m # 0) /\ p.e # ExpMax

\* f64::is_normal: neither zero, subnormal (exponent field 0), infinite nor
\* NaN (exponent field all ones)
is_normal(p) == p.e # 0 /\ p.e # ExpMax

Config == [p0 : P0Values, check_finite : BOOLEAN, method : Methods]

\* 1.0: positive, unbiased exponent 0, mantissa 0
One == [s |-> 0, e |-> ExpMax \div 2, m |-> 0]

\* impl Default for Config
DefaultConfig == [p0 |-> One, check_finite |-> TRUE, method |-> "LM"]

\* check with the filter on p0 negated
check_negated(c) ==
    IF is_normal(c.p0) THEN << [ident |-> "p0"] >> ELSE << >>

\* cfg.check() of the derived CheckVerbose: the violations of the declared
\* field filters in field order; Ok(()) is the empty sequence
check(c) ==
    IF is_normal(c.p0) THEN << >> ELSE << [ident |-> "p0"] >>

\* ------------------------------------------------------------ fit, eval

\* let p_bar = [0.0; N]
p_bar == [i \in 1..N |-> Fin(0)]

\* Curve { func, params }
Curve(f, p) == [func |-> f, params |-> p]

\* fit with the config check ahead of the data length check
fit_config_first(f, xs, ys, c) ==
    IF check(c) # << >>
    THEN [kind |-> "ConfigCheckFailed", e |-> Head(check(c))]
    ELSE IF Len(xs) # Len(ys)
    THEN [kind |-> "UnmatchedLength", x_data_len |-> Len(xs), y_data_len |-> Len(ys)]
    ELSE [kind |-> "Ok", curve |-> Curve(f, p_bar)]

\* fit without the config check
fit_no_config_check(f, xs, ys, c) ==
    IF Len(xs) # Len(ys)
    THEN [kind |-> "UnmatchedLength", x_data_len |-> Len(xs), y_data_len |-> Len(ys)]
    ELSE [kind |-> "Ok", curve |-> Curve(f, p_bar)]

\* fit that starts from the parameters an earlier call left behind instead
\* of a fresh p_bar
fit_stale_params(f, xs, ys, c) ==
    IF Len(xs) # Len(ys)
    THEN [kind |-> "UnmatchedLength", x_data_len |-> Len(xs), y_data_len |-> Len(ys)]
    ELSE IF check(c) # << >>
    THEN [kind |-> "ConfigCheckFailed", e |-> Head(check(c))]
    ELSE [kind |-> "Ok",
          curve |-> Curve(f, IF result.kind = "Ok"
                             THEN [i \in 1..N |-> FAdd(result.curve.params[i], Fin(1))]
                             ELSE p_bar)]

\* CurveFit::fit: Err(UnmatchedLength), Err(ConfigCheckFailed) or Ok(Curve)
fit(f, xs, ys, c) ==
    IF Len(xs) # Len(ys)
    THEN [kind |-> "UnmatchedLength", x_data_len |-> Len(xs), y_data_len |-> Len(ys)]
    ELSE IF check(c) # << >>
    THEN [kind |-> "ConfigCheckFailed", e |-> Head(check(c))]
    ELSE [kind |-> "Ok", curve |-> Curve(f, p_bar)]

\* eval that moves the parameters on with every call made on the Curve
eval_drifting(c, x) ==
    Apply(c.func, x, [i \in 1..N |-> FAdd(c.params[i], Fin(Cardinality(evals)))])

\* Curve::eval
eval(c, x) == Apply(c.func, x, c.params)

\* ------------------------------------------------------------ the inputs

DataValues == {Fin(0), Fin(1)}

SeqsUpTo(S, n) == UNION {[1..len -> S] : len \in 0..n}

\* x = [0,1,2,3,4] and y = 2.5*x + 1.3, y and the parameters counted in
\* tenths
ScenarioX == << Fin(0), Fin(1), Fin(2), Fin(3), Fin(4) >>
ScenarioParams == << Fin(25), Fin(13) >>
ScenarioY == [i \in 1..Len(ScenarioX) |-> target_func(ScenarioX[i], ScenarioParams)]

\* &[1.0, 2.0, 3.0] of it_works
TestData == << Fin(1), Fin(2), Fin(3) >>

DataArrays == SeqsUpTo(DataValues, MaxLen) \cup {ScenarioX, ScenarioY, TestData}

\* the x at which the caller evaluates a Curve
EvalXs == {Fin(0), Fin(1)}

\* ----------------------------------------------------------- the caller

None == [kind |-> "None"]

Init ==
    /\ func \in Funcs
    /\ x_data \in DataArrays
    /\ y_data \in DataArrays
    /\ cfg \in Config
    /\ pc = "start"
    /\ result = None
    /\ prev = None
    /\ curve = None
    /\ evals = {}

\* what the caller keeps of a result: the Curve of an Ok
Unwrapped(r) == IF r.kind = "Ok" THEN r.curve ELSE None

\* the caller calls func.fit(&x_data, &y_data, cfg)
Fit ==
    /\ pc = "start"
    /\ result' = fit(func, x_data, y_data, cfg)
    /\ prev' = None
    /\ curve' = Unwrapped(result')
    /\ evals' = {}
    /\ pc' = "fitted"
    /\ UNCHANGED << func, x_data, y_data, cfg >>

\* the caller calls fit again with the same arguments
Refit ==
    /\ pc # "start"
    /\ result' = fit(func, x_data, y_data, cfg)
    /\ prev' = result
    /\ curve' = Unwrapped(result')
    /\ evals' = {}
    /\ pc' = "refitted"
    /\ UNCHANGED << func, x_data, y_data, cfg >>

\* the caller calls curve.eval(x)
Eval ==
    /\ curve # None
    /\ \E x \in EvalXs : evals' = evals \cup {<< x, eval(curve, x) >>}
    /\ UNCHANGED << func, x_data, y_data, cfg, pc, result, prev, curve >>

Next == Fit \/ Refit \/ Eval

Spec == Init /\ [][Next]_vars

\* ------------------------------------------------- vocabulary of the claims

\* a fit call has returned
Called == pc # "start"

EqualLengths == Len(x_data) = Len(y_data)

\* the classes of f64 values that are not normal
IsZero(p) == p.e = 0 /\ p.m = 0
IsSubnormal(p) == p.e = 0 /\ p.m # 0
IsInfinite(p) == p.e = ExpMax /\ p.m = 0
IsNaN(p) == p.e = ExpMax /\ p.m # 0

Abs(n) == IF n < 0 THEN -n ELSE n

\* |p - q| <= 1e-6
WithinTol(p, q) == is_finite(p) /\ is_finite(q) /\ Abs(p.v - q.v) * 1000000 <= 1

\* the parameter pairs [a, b] of the linear data sets
Coeffs == {ScenarioParams, << Fin(1), Fin(0) >>, << Fin(0), Fin(1) >>,
           << Fin(1), Fin(1) >>, << Fin(0), Fin(0) >>}

\* y generated exactly by a*x + b
Generated(ab, xs) == [i \in 1..Len(xs) |-> target_func(xs[i], ab)]

\* the x values determine a line: two of them differ
Determined(xs) == \E i, j \in 1..Len(xs) : xs[i] # xs[j]

\* sum of g[i] over 1..n
RECURSIVE SumTo(_, _)
SumTo(g, n) == IF n = 0 THEN Fin(0) ELSE FAdd(SumTo(g, n - 1), g[n])

\* Residual/Jacobian engine for target_func, whose Jacobian row at x is
\* [x, 1]: the residuals r = y - f(x, p) satisfy J^T r = 0, written without
\* subtraction as J^T f = J^T y.  The iteration can stop as Converged only
\* at such a point.
Stationary(xs, ys, p) ==
    LET fs == [i \in 1..Len(xs) |-> target_func(xs[i], p)] IN
    /\ SumTo(fs, Len(xs)) = SumTo(ys, Len(xs))
    /\ SumTo([i \in 1..Len(xs) |-> FMul(xs[i], fs[i])], Len(xs))
         = SumTo([i \in 1..Len(xs) |-> FMul(xs[i], ys[i])], Len(xs))

\* some parameter vectors at which a model function may be evaluated
ParamVectors == [1..N -> {Fin(0), Fin(1)}]

\* the model function is non-finite at some data point, whatever the parameters
NonFiniteOnData(f, xs) ==
    \E i \in 1..Len(xs) : \A p \in ParamVectors : ~is_finite(Apply(f, xs[i], p))

\* ----------------------------------------------------------------- claims

\* C1: a fit call on x_data and y_data of different lengths returns
\* UnmatchedLength carrying exactly the two lengths, whatever the config
\* (valid or not), and the caller gets no Curve.
C1_UnmatchedLength ==
    (Called /\ ~EqualLengths) =>
        /\ result = [kind |-> "UnmatchedLength",
                     x_data_len |-> Len(x_data), y_data_len |-> Len(y_data)]
        /\ curve = None

\* C1 witness: lengths 3 and 2 with an invalid config (p0 = NaN).
C1_Witness ==
    /\ Called /\ Len(x_data) = 3 /\ Len(y_data) = 2
    /\ IsNaN(cfg.p0)
    /\ result.kind = "UnmatchedLength"
    /\ result.x_data_len = 3 /\ result.y_data_len = 2

\* C2 as stated: with p0 = 0.0 or p0 = NaN fit returns ConfigCheckFailed for
\* every pair of data arrays, arrays of different lengths included.
C2_ConfigErrorForAllData ==
    (Called /\ (IsZero(cfg.p0) \/ IsNaN(cfg.p0))) => result.kind = "ConfigCheckFailed"

\* C2 amended: with p0 = 0.0 or p0 = NaN and data arrays of equal length fit
\* returns ConfigCheckFailed carrying the violation of p0; the data length
\* check runs first, so with arrays of different lengths the result is
\* UnmatchedLength.
C2_ConfigErrorForEqualLengths ==
    (Called /\ (IsZero(cfg.p0) \/ IsNaN(cfg.p0))) =>
        /\ EqualLengths =>
              /\ result = [kind |-> "ConfigCheckFailed", e |-> [ident |-> "p0"]]
              /\ curve = None
        /\ ~EqualLengths => result.kind = "UnmatchedLength"

\* C2 witness: p0 = 0.0, equal non-empty data, the config error returned.
C2_Witness ==
    /\ Called /\ IsZero(cfg.p0) /\ EqualLengths /\ Len(x_data) > 0
    /\ result.kind = "ConfigCheckFailed"

\* C3: on data arrays of equal length fit returns ConfigCheckFailed exactly
\* when p0 is zero, subnormal, infinite or NaN, whatever check_finite and
\* method are; and it returns Ok otherwise.
C3_ConfigErrorIffNotNormal ==
    (Called /\ EqualLengths) =>
        /\ result.kind = "ConfigCheckFailed"
              <=> (IsZero(cfg.p0) \/ IsSubnormal(cfg.p0)
                     \/ IsInfinite(cfg.p0) \/ IsNaN(cfg.p0))
        /\ result.kind \in {"ConfigCheckFailed", "Ok"}

\* C3 witness: a subnormal p0 with check_finite off and method TRF is rejected.
C3_Witness ==
    /\ Called /\ EqualLengths /\ IsSubnormal(cfg.p0)
    /\ ~cfg.check_finite /\ cfg.method = "TRF"
    /\ result.kind = "ConfigCheckFailed"

\* C4: on data generated exactly by a*x + b (x values that determine the
\* line) and a valid config, fit with target_func returns a Curve whose
\* parameters are within 1e-6 of [a, b], for every method.
C4_LinearRecovered ==
    \A ab \in Coeffs :
        (/\ Called /\ func = "target_func" /\ is_normal(cfg.p0)
         /\ EqualLengths /\ Determined(x_data)
         /\ y_data = Generated(ab, x_data)) =>
            /\ result.kind = "Ok"
            /\ \A i \in 1..N : WithinTol(result.curve.params[i], ab[i])

\* C5: fit returns Ok only when the optimizer ended Converged: for
\* target_func the returned parameters are a stationary point of the sum of
\* squared residuals, never a default vector standing in for one.
C5_OkOnlyWhenConverged ==
    (/\ Called /\ func = "target_func" /\ result.kind = "Ok") =>
        Stationary(x_data, y_data, result.curve.params)

\* C6: with the constant-zero model function, non-empty data of equal length
\* with non-zero y values and a valid config, fit ends in a non-convergence
\* or numerical-failure error.
C6_ZeroModelIsAnError ==
    (/\ Called /\ func = "zero_func" /\ is_normal(cfg.p0)
     /\ EqualLengths /\ Len(y_data) > 0
     /\ \A i \in 1..Len(y_data) : y_data[i] # Fin(0)) =>
        result.kind \in {"MaxIterationsReached", "NumericalFailure"}

\* C7: on data arrays of equal length and a normal p0, fit returns Ok with a
\* Curve of the model function passed, and every eval called on it returns
\* an f64 value.
C7_OkAndEval ==
    (Called /\ EqualLengths /\ is_normal(cfg.p0)) =>
        /\ result.kind = "Ok"
        /\ curve = result.curve
        /\ curve.func = func
        /\ \A e \in evals : e[2].k \in {"fin", "inf", "nan"}

\* C7 witness: it_works: target_func on [1,2,3], [1,2,3] with check_finite
\* off and otherwise the default config, then eval(1.0).
C7_Witness ==
    /\ func = "target_func" /\ x_data = TestData /\ y_data = TestData
    /\ cfg = [DefaultConfig EXCEPT !.check_finite = FALSE]
    /\ result.kind = "Ok"
    /\ \E e \in evals : e[1] = Fin(1)

\* C8: every eval(x) made on a Curve returned the stored function applied
\* to x and the stored parameters, which are those fit created the Curve
\* with; eval calls at the same x, in whatever order, returned one value.
C8_EvalIsStoredFunction ==
    curve # None =>
        /\ curve = result.curve
        /\ \A e \in evals : e[2] = Apply(curve.func, e[1], curve.params)
        /\ \A e1, e2 \in evals : e1[1] = e2[1] => e1[2] = e2[2]

\* C8 witness: a Curve of target_func evaluated at every x of EvalXs.
C8_Witness ==
    /\ curve # None /\ curve.func = "target_func"
    /\ \A x \in EvalXs : \E e \in evals : e[1] = x

C10_CheckFiniteAborts ==
    (/\ Called /\ cfg.check_finite /\ is_normal(cfg.p0)
     /\ EqualLengths /\ NonFiniteOnData(func, x_data)) =>
        result.kind = "NumericalFailure"

====
